---- MODULE Spec2Model ----
(***************************************************************************)
(* SitemapParser (src/sitemap_parser.py): the crawl started by the         *)
(* constructor.  extract_sitemaps reads robots.txt and calls parse_sitemap *)
(* for every declared sitemap; parse_sitemap fetches a document, stores a  *)
(* DataFrame built by enhance_dataframe and recurses into every location   *)
(* ending in ".xml" while processed_sitemaps_count < max_sitemap_limit.    *)
(*                                                                         *)
(* Python strings are sequences of one-character strings.  The HTTP        *)
(* transport and the XML tokenizer are collaborators: a document is the    *)
(* sequence of its <loc> texts, robots.txt the sequence of its lines.      *)
(***************************************************************************)
EXTENDS Integers, Sequences, FiniteSets, TLC

(***************************************************************************)
(* str methods used by the parser                                          *)
(***************************************************************************)

\* s.startswith(p)
startswith(s, p) ==
    /\ Len(s) >= Len(p)
    /\ SubSeq(s, 1, Len(p)) = p

\* s.endswith(p)
endswith(s, p) ==
    /\ Len(s) >= Len(p)
    /\ SubSeq(s, Len(s) - Len(p) + 1, Len(s)) = p

\* the 1-based indices at or after i where sep occurs in s
occurrences(s, sep, i) ==
    {k \in i..(Len(s) - Len(sep) + 1) : SubSeq(s, k, k + Len(sep) - 1) = sep}

\* the least element of a non-empty set of integers
least(S) == CHOOSE k \in S : \A j \in S : k <= j

\* the greatest element of a non-empty set of integers
greatest(S) == CHOOSE k \in S : \A j \in S : j <= k

\* s.split(sep), sep non-empty: the pieces between the occurrences of sep,
\* found left to right, each search starting after the previous occurrence
split(s, sep) ==
    LET from[str \in {s}, i \in 1..(Len(s) + 1)] ==
            IF occurrences(str, sep, i) = {}
            THEN <<SubSeq(str, i, Len(str))>>
            ELSE <<SubSeq(str, i, least(occurrences(str, sep, i)) - 1)>>
                 \o from[str, least(occurrences(str, sep, i)) + Len(sep)]
    IN  from[s, 1]

\* s.replace(old, new), old non-empty: every occurrence, left to right
replace(s, old, new) ==
    LET from[str \in {s}, i \in 1..(Len(s) + 1)] ==
            IF occurrences(str, old, i) = {}
            THEN SubSeq(str, i, Len(str))
            ELSE SubSeq(str, i, least(occurrences(str, old, i)) - 1) \o new
                 \o from[str, least(occurrences(str, old, i)) + Len(old)]
    IN  from[s, 1]

\* s.strip(chars): s without its leading and trailing characters of chars
strip(s, chars) ==
    LET stripped[str \in {s}] ==
            IF {k \in 1..Len(str) : str[k] \notin chars} = {}
            THEN <<>>
            ELSE SubSeq(str, least({k \in 1..Len(str) : str[k] \notin chars}),
                        greatest({k \in 1..Len(str) : str[k] \notin chars}))
    IN  stripped[s]

\* the characters str.strip() removes when called without an argument
Whitespace == {" ", "\t", "\n", "\r"}

(***************************************************************************)
(* Literals of the source                                                  *)
(***************************************************************************)

\* "Sitemap:"
SitemapPrefix == <<"S", "i", "t", "e", "m", "a", "p", ":">>

\* ": "
ColonSpace == <<":", " ">>

\* ".xml"
XmlSuffix == <<".", "x", "m", "l">>

\* "/"
Slash == <<"/">>

\* None, the cell of a URL shallower than the column's depth
None == <<"None">>

(***************************************************************************)
(* The inputs: the site, its documents and its robots.txt                  *)
(***************************************************************************)

\* the constructor's argument
target_url == <<"h", ":", "/", "/", "e">>

\* sitemap documents h://e/<c>.xml
Doc(c) == target_url \o <<"/", c>> \o XmlSuffix

UrlA == Doc("a")

UrlB == Doc("b")

UrlC == Doc("c")

UrlD == Doc("d")

UrlE == Doc("e")

UrlF == Doc("f")

\* two sitemaps with the same final path segment, s.xml
UrlS1 == target_url \o <<"/", "a", "/", "s">> \o XmlSuffix

UrlS2 == target_url \o <<"/", "b", "/", "s">> \o XmlSuffix

\* pages: h://e/a/b, h://e/a, h://e/ and the off-site x/y
PageAB == target_url \o <<"/", "a", "/", "b">>

PageA == target_url \o <<"/", "a">>

PageRoot == target_url \o <<"/">>

PageOff == <<"x", "/", "y">>

\* A referencing B then C, B referencing D
WebTree ==
    (UrlA :> <<UrlB, UrlC, PageAB>>) @@ (UrlB :> <<UrlD, PageA>>)
    @@ (UrlC :> <<PageAB, PageA>>) @@ (UrlD :> <<PageA>>)

\* a root referencing five leaf sitemaps
WebFan ==
    (UrlA :> <<UrlB, PageA, UrlC, UrlD, UrlE, UrlF>>) @@ (UrlB :> <<PageA>>)
    @@ (UrlC :> <<PageAB>>) @@ (UrlD :> <<PageRoot>>) @@ (UrlE :> <<PageOff, PageA>>)
    @@ (UrlF :> <<PageA, PageAB>>)

\* a sitemap referencing itself, and a descendant referencing its ancestor
WebCycle ==
    (UrlA :> <<UrlA, UrlB>>) @@ (UrlB :> <<UrlA, PageAB>>)

\* two sitemaps named s.xml, the first referencing the second
WebCollide ==
    (UrlS1 :> <<PageAB, UrlS2, PageRoot>>) @@ (UrlS2 :> <<PageA>>)
    @@ (UrlA :> <<UrlS2, UrlS1>>)

\* B is unreachable (transport error), C is served with no loc element
WebBroken ==
    (UrlA :> <<UrlB, UrlC>>) @@ (UrlC :> <<>>) @@ (UrlD :> <<PageA>>)

\* six sitemaps of pages only
WebFlat ==
    (UrlA :> <<PageAB>>) @@ (UrlB :> <<PageA>>) @@ (UrlC :> <<PageAB, PageA>>)
    @@ (UrlD :> <<PageRoot>>) @@ (UrlE :> <<PageOff, PageAB>>) @@ (UrlF :> <<PageA>>)

\* the sites crawled, by name
Sites ==
    [ tree |-> WebTree, fan |-> WebFan, cycle |-> WebCycle, collide |-> WebCollide,
      broken |-> WebBroken, flat |-> WebFlat ]

Webs == DOMAIN Sites

\* "Sitemap: <u>"
Decl(u) == SitemapPrefix \o <<" ">> \o u

\* "Sitemap:<u>", no space after the colon
DeclTight(u) == SitemapPrefix \o u

\* "Sitemap:   <u>  "
DeclPadded(u) == SitemapPrefix \o <<" ", " ", " ">> \o u \o <<" ", " ">>

\* "sitemap: <u>"
DeclLower(u) == <<"s", "i", "t", "e", "m", "a", "p", ":", " ">> \o u

\* "User-agent: *"
LineAgent == <<"U", "s", "e", "r", "-", "a", "g", "e", "n", "t", ":", " ", "*">>

\* the robots.txt files served, by name: ok is FALSE when the request fails
RobotsTxt ==
    [ down   |-> [ok |-> FALSE, text |-> <<Decl(UrlA)>>],
      empty  |-> [ok |-> TRUE, text |-> <<>>],
      one    |-> [ok |-> TRUE, text |-> <<LineAgent, Decl(UrlA)>>],
      mixed  |-> [ok |-> TRUE, text |-> <<Decl(UrlA), DeclLower(UrlB), <<>>, Decl(UrlC)>>],
      same   |-> [ok |-> TRUE, text |-> <<Decl(UrlS1), <<" ">> \o Decl(UrlA), Decl(UrlS2)>>],
      many   |-> [ok |-> TRUE,
                  text |-> <<Decl(UrlA), Decl(UrlB), Decl(UrlC), Decl(UrlD), Decl(UrlE),
                              Decl(UrlF)>>],
      tight  |-> [ok |-> TRUE, text |-> <<DeclPadded(UrlD), DeclTight(UrlA), Decl(UrlB)>>],
      colons |-> [ok |-> TRUE,
                  text |-> <<Decl(UrlD \o ColonSpace \o <<"x">>), Decl(UrlA)>>] ]

RobotsFiles == DOMAIN RobotsTxt

\* the largest scaled-down value of max_sitemap_limit
MaxLimit == 4

\* the value the constructor assigns to max_sitemap_limit
DefaultLimit == 20

Limits == (1..MaxLimit) \cup {DefaultLimit}

(***************************************************************************)
(* State                                                                   *)
(***************************************************************************)
VARIABLES
    web,                        \* the site crawled, a name of Sites
    robots,                     \* the site's robots.txt, a name of RobotsTxt
    max_sitemap_limit,          \* self.max_sitemap_limit
    processed_sitemaps_count,   \* self.processed_sitemaps_count
    sitemap_data,               \* self.sitemap_data: sitemap_id -> DataFrame
    pc,                         \* "start", "lines", "returned" or "raised"
    lineNo,                     \* position of extract_sitemaps' loop
    pending,                    \* <<url>> while parse_sitemap(url) is being entered
    stack,                      \* active parse_sitemap frames [url, i], innermost first
    error,                      \* the exception leaving the constructor
    fetched,                    \* history: URLs requested, in order
    visited,                    \* history: sitemap URLs fetched and stored, in order
    calls                       \* history: parse_sitemap calls, in order

vars ==
    <<web, robots, max_sitemap_limit, processed_sitemaps_count, sitemap_data, pc, lineNo,
      pending, stack, error, fetched, visited, calls>>

(***************************************************************************)
(* Pure helpers of SitemapParser                                           *)
(***************************************************************************)

\* f"{self.target_url}/robots.txt"
robots_txt_url == target_url \o <<"/", "r", "o", "b", "o", "t", "s", ".", "t", "x", "t">>

\* fetch_content(robots_txt_url).splitlines(): "" when the request fails
lines == IF RobotsTxt[robots].ok THEN RobotsTxt[robots].text ELSE <<>>

\* the <loc> texts of fetch_content(url): none when the request fails
fetch_content(url) == IF url \in DOMAIN Sites[web] THEN Sites[web][url] ELSE <<>>

\* line.startswith("Sitemap:")
IsDeclaration(line) == startswith(line, SitemapPrefix)

\* line.split(": ")[1] raises IndexError when the split has one piece
DeclarationRaises(line) == Len(split(line, ColonSpace)) < 2

\* line.split(": ")[1].strip()
DeclaredUrl(line) == strip(split(line, ColonSpace)[2], Whitespace)

\* sitemap_url.split("/")[-1]
sitemap_id(url) == split(url, Slash)[Len(split(url, Slash))]

\* url.replace(self.target_url, "").strip("/").split("/")
split_url_path(url) == split(strip(replace(url, target_url, <<>>), {"/"}), Slash)

\* variant: the depth of the first URL instead of the maximum
max_depth_of_first(urls) == Len(split_url_path(urls[1]))

\* max(len(split_url_path(url)) for url in dataframe["URLs"]), urls non-empty
max_depth(urls) ==
    CHOOSE m \in {Len(split_url_path(urls[r])) : r \in 1..Len(urls)} :
        \A r \in 1..Len(urls) : Len(split_url_path(urls[r])) <= m

\* the lambda applied to each URL for column Level_<depth>
LevelCell(url, depth) ==
    IF depth < Len(split_url_path(url)) THEN split_url_path(url)[depth + 1] ELSE None

\* max() of an empty sequence raises ValueError
EnhanceRaises(urls) == urls = <<>>

\* the DataFrame: column URLs, then Level_0 .. Level_<max_depth - 1> at Levels[1..]
enhance_dataframe(urls) ==
    [ URLs   |-> urls,
      Levels |-> [d \in 1..max_depth(urls) |->
                     [r \in 1..Len(urls) |-> LevelCell(urls[r], d - 1)]] ]

\* variant: > instead of >=
BudgetReachedStrict == processed_sitemaps_count > max_sitemap_limit

\* variant: no guard at entry
BudgetReachedNever == FALSE

\* self.processed_sitemaps_count >= self.max_sitemap_limit
BudgetReached == processed_sitemaps_count >= max_sitemap_limit

\* variant: the suffix test left out
IsNestedSitemapAnySuffix(loc) == processed_sitemaps_count < max_sitemap_limit

\* loc.text.endswith(".xml") and self.processed_sitemaps_count < self.max_sitemap_limit
IsNestedSitemap(loc) ==
    /\ endswith(loc, XmlSuffix)
    /\ processed_sitemaps_count < max_sitemap_limit

\* variant: the increment left out
IncrementCountLost(n) == n

\* self.processed_sitemaps_count += 1
IncrementCount(n) == n + 1

\* variant: an existing entry is kept (setdefault)
StoreEntryIfAbsent(data, id, df) ==
    [k \in DOMAIN data \cup {id} |-> IF k \in DOMAIN data THEN data[k] ELSE df]

\* self.sitemap_data[sitemap_id] = df
StoreEntry(data, id, df) ==
    [k \in DOMAIN data \cup {id} |-> IF k = id THEN df ELSE data[k]]

\* variant: the called document is queued behind the active ones
PushFrameBehind(frames, frame) == Append(frames, frame)

\* the frame of a called parse_sitemap goes on top of its caller's
PushFrame(frames, frame) == <<frame>> \o frames

\* soup.find_all("loc") of the frame's document
Locs(frame) == fetch_content(frame.url)

\* the location the frame's for loop is at
CurrentLoc(frame) == Locs(frame)[frame.i]

Halted == pc \in {"returned", "raised"}

(***************************************************************************)
(* __init__ up to the call of extract_sitemaps                             *)
(***************************************************************************)
Init ==
    /\ web \in Webs
    /\ robots \in RobotsFiles
    /\ max_sitemap_limit \in Limits
    /\ processed_sitemaps_count = 0
    /\ sitemap_data = [k \in {} |-> <<>>]
    /\ pc = "start"
    /\ lineNo = 1
    /\ pending = <<>>
    /\ stack = <<>>
    /\ error = "none"
    /\ fetched = <<>>
    /\ visited = <<>>
    /\ calls = <<>>

(***************************************************************************)
(* extract_sitemaps                                                        *)
(***************************************************************************)

\* robots_txt_content = self.fetch_content(robots_txt_url)
FetchRobots ==
    /\ pc = "start"
    /\ fetched' = Append(fetched, robots_txt_url)
    /\ pc' = "lines"
    /\ UNCHANGED <<web, robots, max_sitemap_limit, processed_sitemaps_count, sitemap_data,
                   lineNo, pending, stack, error, visited, calls>>

AtLine ==
    /\ pc = "lines"
    /\ pending = <<>>
    /\ stack = <<>>
    /\ lineNo <= Len(lines)

\* a line that does not start with "Sitemap:"
SkipLine ==
    /\ AtLine
    /\ ~IsDeclaration(lines[lineNo])
    /\ lineNo' = lineNo + 1
    /\ UNCHANGED <<web, robots, max_sitemap_limit, processed_sitemaps_count, sitemap_data,
                   pc, pending, stack, error, fetched, visited, calls>>

\* a declaration: self.parse_sitemap(sitemap_url) is called
DeclareSitemap ==
    /\ AtLine
    /\ IsDeclaration(lines[lineNo])
    /\ ~DeclarationRaises(lines[lineNo])
    /\ pending' = <<DeclaredUrl(lines[lineNo])>>
    /\ lineNo' = lineNo + 1
    /\ UNCHANGED <<web, robots, max_sitemap_limit, processed_sitemaps_count, sitemap_data,
                   pc, stack, error, fetched, visited, calls>>

\* a declaration without ": ": IndexError leaves extract_sitemaps and __init__
DeclareRaises ==
    /\ AtLine
    /\ IsDeclaration(lines[lineNo])
    /\ DeclarationRaises(lines[lineNo])
    /\ pc' = "raised"
    /\ error' = "IndexError"
    /\ UNCHANGED <<web, robots, max_sitemap_limit, processed_sitemaps_count, sitemap_data,
                   lineNo, pending, stack, fetched, visited, calls>>

\* the loop over the lines is over: the constructor returns
ExtractReturn ==
    /\ pc = "lines"
    /\ pending = <<>>
    /\ stack = <<>>
    /\ lineNo > Len(lines)
    /\ pc' = "returned"
    /\ UNCHANGED <<web, robots, max_sitemap_limit, processed_sitemaps_count, sitemap_data,
                   lineNo, pending, stack, error, fetched, visited, calls>>

(***************************************************************************)
(* parse_sitemap                                                           *)
(***************************************************************************)

Entering ==
    /\ pc = "lines"
    /\ pending # <<>>

\* the guard at entry: return without fetching
EnterNoop ==
    /\ Entering
    /\ BudgetReached
    /\ pending' = <<>>
    /\ calls' = Append(calls, [url |-> pending[1], depth |-> Len(stack), noop |-> TRUE])
    /\ UNCHANGED <<web, robots, max_sitemap_limit, processed_sitemaps_count, sitemap_data,
                   pc, lineNo, stack, error, fetched, visited>>

\* fetch, parse, enhance and store; the for loop over the locations starts
EnterVisit ==
    /\ Entering
    /\ ~BudgetReached
    /\ ~EnhanceRaises(fetch_content(pending[1]))
    /\ fetched' = Append(fetched, pending[1])
    /\ sitemap_data' = StoreEntry(sitemap_data, sitemap_id(pending[1]),
                                  enhance_dataframe(fetch_content(pending[1])))
    /\ visited' = Append(visited, pending[1])
    /\ stack' = PushFrame(stack, [url |-> pending[1], i |-> 1])
    /\ calls' = Append(calls, [url |-> pending[1], depth |-> Len(stack), noop |-> FALSE])
    /\ pending' = <<>>
    /\ UNCHANGED <<web, robots, max_sitemap_limit, processed_sitemaps_count, pc,
                   lineNo, error>>

\* fetch and parse a document without locations: enhance_dataframe raises
\* ValueError, which no caller catches
EnterRaises ==
    /\ Entering
    /\ ~BudgetReached
    /\ EnhanceRaises(fetch_content(pending[1]))
    /\ fetched' = Append(fetched, pending[1])
    /\ calls' = Append(calls, [url |-> pending[1], depth |-> Len(stack), noop |-> FALSE])
    /\ pending' = <<>>
    /\ pc' = "raised"
    /\ error' = "ValueError"
    /\ UNCHANGED <<web, robots, max_sitemap_limit, processed_sitemaps_count, sitemap_data,
                   lineNo, stack, visited>>

InLoop ==
    /\ pc = "lines"
    /\ pending = <<>>
    /\ stack # <<>>

\* a location ending in ".xml" within the budget: count it, then call
LoopRecurse ==
    /\ InLoop
    /\ Head(stack).i <= Len(Locs(Head(stack)))
    /\ IsNestedSitemap(CurrentLoc(Head(stack)))
    /\ processed_sitemaps_count' = IncrementCount(processed_sitemaps_count)
    /\ pending' = <<CurrentLoc(Head(stack))>>
    /\ stack' = <<[Head(stack) EXCEPT !.i = @ + 1]>> \o Tail(stack)
    /\ UNCHANGED <<web, robots, max_sitemap_limit, sitemap_data, pc, lineNo, error,
                   fetched, visited, calls>>

\* any other location: next iteration
LoopSkip ==
    /\ InLoop
    /\ Head(stack).i <= Len(Locs(Head(stack)))
    /\ ~IsNestedSitemap(CurrentLoc(Head(stack)))
    /\ stack' = <<[Head(stack) EXCEPT !.i = @ + 1]>> \o Tail(stack)
    /\ UNCHANGED <<web, robots, max_sitemap_limit, processed_sitemaps_count, sitemap_data,
                   pc, lineNo, pending, error, fetched, visited, calls>>

\* the for loop is over: parse_sitemap returns to its caller
LoopReturn ==
    /\ InLoop
    /\ Head(stack).i > Len(Locs(Head(stack)))
    /\ stack' = Tail(stack)
    /\ UNCHANGED <<web, robots, max_sitemap_limit, processed_sitemaps_count, sitemap_data,
                   pc, lineNo, pending, error, fetched, visited, calls>>

Next ==
    \/ FetchRobots
    \/ SkipLine
    \/ DeclareSitemap
    \/ DeclareRaises
    \/ ExtractReturn
    \/ EnterNoop
    \/ EnterVisit
    \/ EnterRaises
    \/ LoopRecurse
    \/ LoopSkip
    \/ LoopReturn

Spec == Init /\ [][Next]_vars

\* the interpreter runs the single thread until the constructor is left
FairSpec == Spec /\ WF_vars(Next)

(***************************************************************************)
(* Vocabulary of the properties                                            *)
(***************************************************************************)

IsTopLevel(c) == c.depth = 0

IsNested(c) == c.depth > 0

\* the URLs of the calls made so far by extract_sitemaps, in order
TopLevelUrls ==
    [n \in 1..Len(SelectSeq(calls, IsTopLevel)) |-> SelectSeq(calls, IsTopLevel)[n].url]

IsPrefix(s, t) ==
    /\ Len(s) <= Len(t)
    /\ SubSeq(t, 1, Len(s)) = s

IsXml(loc) == endswith(loc, XmlSuffix)

\* the positions of locs that end in ".xml"
XmlRefs(locs) == {r \in 1..Len(locs) : IsXml(locs[r])}

\* a sitemap of pages only, at least one
IsLeaf(u) ==
    /\ fetch_content(u) # <<>>
    /\ XmlRefs(fetch_content(u)) = {}

(***************************************************************************)
(* C1                                                                      *)
(***************************************************************************)

\* C1: over a whole crawl the number of sitemap documents visited (fetched
\* and stored) never exceeds max_sitemap_limit.
C1_VisitedWithinLimit == Len(visited) <= max_sitemap_limit

(***************************************************************************)
(* C2                                                                      *)
(***************************************************************************)

\* C2: when a sitemap's fetch fails or yields no loc element, parse_sitemap
\* raises nothing and an entry is stored under the document's sitemap_id.
C2_EmptyDocumentStored ==
    \A n \in 1..Len(calls) :
        (~calls[n].noop /\ fetch_content(calls[n].url) = <<>>)
            => /\ error # "ValueError"
               /\ sitemap_id(calls[n].url) \in DOMAIN sitemap_data

(***************************************************************************)
(* C3                                                                      *)
(***************************************************************************)

\* the constructor has returned from a crawl whose only top-level call is
\* for a root that references more than max_sitemap_limit leaf sitemaps
FanCrawl ==
    /\ pc = "returned"
    /\ Len(TopLevelUrls) = 1
    /\ Cardinality(XmlRefs(fetch_content(TopLevelUrls[1]))) > max_sitemap_limit
    /\ \A r \in XmlRefs(fetch_content(TopLevelUrls[1])) :
           IsLeaf(fetch_content(TopLevelUrls[1])[r])

\* C3 as stated: such a crawl visits max_sitemap_limit nested documents
\* besides the root, max_sitemap_limit + 1 documents in all.
C3_VisitsLimitPlusRoot == FanCrawl => Len(visited) = max_sitemap_limit + 1

\* C3, amended: such a crawl visits max_sitemap_limit - 1 nested documents
\* besides the root, max_sitemap_limit documents in all: the root and the
\* first max_sitemap_limit - 1 of its ".xml" locations; the call counted
\* last returns at the guard, and the counter ends at max_sitemap_limit.
C3_VisitsLimitInAll ==
    FanCrawl =>
        /\ Len(visited) = max_sitemap_limit
        /\ visited = SubSeq(<<TopLevelUrls[1]>>
                                \o SelectSeq(fetch_content(TopLevelUrls[1]), IsXml),
                            1, max_sitemap_limit)
        /\ processed_sitemaps_count = max_sitemap_limit
        /\ Len(SelectSeq(calls, IsNested)) = max_sitemap_limit

C3_Witness ==
    /\ FanCrawl
    /\ max_sitemap_limit = 2
    /\ Cardinality(XmlRefs(fetch_content(TopLevelUrls[1]))) = 5
    /\ visited = <<UrlA, UrlB>>

(***************************************************************************)
(* C4                                                                      *)
(***************************************************************************)

\* the sitemaps of the site that u references directly
Children(u) == {fetch_content(u)[r] : r \in XmlRefs(fetch_content(u))}

RECURSIVE Descendants(_, _)
\* the sitemaps reached from u in 1..n references
Descendants(u, n) ==
    IF n = 0
    THEN {}
    ELSE Children(u) \cup UNION {Descendants(c, n - 1) : c \in Children(u)}

\* no sitemap of the site reaches itself
Acyclic ==
    \A u \in DOMAIN Sites[web] : u \notin Descendants(u, Cardinality(DOMAIN Sites[web]))

RECURSIVE Preorder(_)
RECURSIVE PreorderOfAll(_)
\* u, then the subtree of each ".xml" location of u, in document order
Preorder(u) == <<u>> \o PreorderOfAll(SelectSeq(fetch_content(u), IsXml))

PreorderOfAll(us) ==
    IF us = <<>> THEN <<>> ELSE Preorder(Head(us)) \o PreorderOfAll(Tail(us))

\* C4: while the budget is not exhausted the visits are in depth-first
\* document order: each ".xml" location is visited with its whole subtree
\* before the next sibling; A -> B, C and B -> D is visited A, B, D, C.
C4_DepthFirstOrder ==
    /\ (Acyclic /\ ~BudgetReached)
           => /\ IsPrefix(visited, PreorderOfAll(TopLevelUrls))
              /\ pc = "returned" => visited = PreorderOfAll(TopLevelUrls)
    /\ (web = "tree" /\ TopLevelUrls = <<UrlA>> /\ pc = "returned" /\ ~BudgetReached)
           => visited = <<UrlA, UrlB, UrlD, UrlC>>

C4_Witness ==
    /\ web = "tree"
    /\ pc = "returned"
    /\ ~BudgetReached
    /\ visited = <<UrlA, UrlB, UrlD, UrlC>>

(***************************************************************************)
(* C5                                                                      *)
(***************************************************************************)

\* the nested calls made so far, the one being entered included
NestedCallsMade ==
    Len(SelectSeq(calls, IsNested)) + (IF pending # <<>> /\ stack # <<>> THEN 1 ELSE 0)

\* C5: the traversal terminates on every site, cyclic ones included: the
\* constructor is left after finitely many steps, the counter never
\* decreases, every nested call is preceded by its own increment, and the
\* recursion is never deeper than max_sitemap_limit.
C5_Terminates ==
    /\ <>Halted
    /\ [](NestedCallsMade = processed_sitemaps_count)
    /\ [](Len(stack) <= max_sitemap_limit)
    /\ [][processed_sitemaps_count' >= processed_sitemaps_count]_vars

C5_Witness ==
    /\ pc = "returned"
    /\ web = "cycle"
    /\ BudgetReached
    /\ \E n \in 1..Len(calls) : calls[n].noop /\ calls[n].url = UrlA /\ calls[n].depth > 1

(***************************************************************************)
(* C6                                                                      *)
(***************************************************************************)

\* the positions of visited at which a document named id was stored
VisitsOf(id) == {n \in 1..Len(visited) : sitemap_id(visited[n]) = id}

\* the last of them
LastVisitOf(id) == CHOOSE n \in VisitsOf(id) : \A m \in VisitsOf(id) : m <= n

\* C6: sitemap_data is keyed by the final path segment and the last write
\* wins: the entry under an id holds the locations of the document with that
\* id that was visited last, each document being stored when it is visited,
\* before its nested documents.
C6_LastWriteWins ==
    /\ DOMAIN sitemap_data = {sitemap_id(visited[n]) : n \in 1..Len(visited)}
    /\ \A id \in DOMAIN sitemap_data :
           sitemap_data[id].URLs = fetch_content(visited[LastVisitOf(id)])

\* two different documents named s.xml were visited, the second from inside
\* the first, and the entry holds the second's locations, not the first's
C6_Witness ==
    /\ pc = "returned"
    /\ \E m, n \in 1..Len(visited) :
           /\ m < n
           /\ visited[m] = UrlS1
           /\ visited[n] = UrlS2
           /\ n = LastVisitOf(<<"s">> \o XmlSuffix)
           /\ fetch_content(UrlS1) # fetch_content(UrlS2)
           /\ sitemap_data[<<"s">> \o XmlSuffix].URLs = fetch_content(UrlS2)

(***************************************************************************)
(* C7                                                                      *)
(***************************************************************************)

\* C7: parse_sitemap entered with processed_sitemaps_count >=
\* max_sitemap_limit returns at once: nothing is fetched, stored, counted or
\* raised.
C7_NoopAtLimit ==
    [][(pending # <<>> /\ processed_sitemaps_count >= max_sitemap_limit)
           => /\ pending' = <<>>
              /\ calls' = Append(calls, [url |-> pending[1], depth |-> Len(stack),
                                         noop |-> TRUE])
              /\ UNCHANGED <<sitemap_data, processed_sitemaps_count, fetched, visited,
                             error, pc, stack, lineNo>>]_vars

C7_Witness ==
    /\ \E n \in 1..Len(calls) : calls[n].noop /\ calls[n].depth = 0
    /\ \E n \in 1..Len(calls) : calls[n].noop /\ calls[n].depth > 0
    /\ pc = "returned"

(***************************************************************************)
(* C8                                                                      *)
(***************************************************************************)

\* a line beginning with the literal prefix "Sitemap:"
BeginsWithSitemap(line) ==
    /\ Len(line) >= 8
    /\ SubSeq(line, 1, 8) = SitemapPrefix

\* everything after the first ": " of the line, trimmed
AfterFirstSeparator(line) ==
    IF occurrences(line, ColonSpace, 1) = {}
    THEN <<>>
    ELSE strip(SubSeq(line, least(occurrences(line, ColonSpace, 1)) + 2, Len(line)),
               Whitespace)

\* the URLs robots.txt declares, in file order
DeclaredUrls ==
    [n \in 1..Len(SelectSeq(lines, BeginsWithSitemap)) |->
        AfterFirstSeparator(SelectSeq(lines, BeginsWithSitemap)[n])]

\* C8: extract_sitemaps calls parse_sitemap once for each robots.txt line
\* beginning with "Sitemap:", in file order, with everything after the
\* line's first ": " trimmed, ignores every other line, and no line raises
\* an error (crawls ended by a sitemap without locations set aside).
C8_RobotsDiscovery ==
    (Halted /\ error # "ValueError")
        => /\ error = "none"
           /\ TopLevelUrls = DeclaredUrls

(***************************************************************************)
(* C9                                                                      *)
(***************************************************************************)

\* the path segments of a URL: the target prefix removed, leading and
\* trailing "/" removed, the rest split on "/"
Segments(u) ==
    split(strip(IF startswith(u, target_url)
                THEN SubSeq(u, Len(target_url) + 1, Len(u))
                ELSE u,
                {"/"}),
          Slash)

\* df has one row per URL of urls in order (a cell per row in every column),
\* Level_0 .. Level_<max_depth - 1> and no other level column, and in each
\* cell the URL's segment at that depth, or None
IsDecomposition(df, urls) ==
    /\ df.URLs = urls
    /\ Len(df.Levels) = greatest({Len(Segments(urls[r])) : r \in 1..Len(urls)})
    /\ \A d \in 1..Len(df.Levels) :
           /\ Len(df.Levels[d]) = Len(urls)
           /\ \A r \in 1..Len(urls) :
                  df.Levels[d][r] = IF Len(Segments(urls[r])) > d - 1
                                    THEN Segments(urls[r])[d]
                                    ELSE None

\* C9: the DataFrame enhance_dataframe builds for a non-empty URL list has one
\* row per URL in input order and columns Level_0 .. Level_<max_depth - 1>,
\* max_depth the largest segment count, each cell the URL's segment at that
\* depth or None; [h://e/a/b, h://e/a] gives Level_0 = a, a and
\* Level_1 = b, None.
C9_PathColumns ==
    \A id \in DOMAIN sitemap_data :
        /\ sitemap_data[id].URLs # <<>>
        /\ \E n \in 1..Len(visited) :
               /\ sitemap_id(visited[n]) = id
               /\ IsDecomposition(sitemap_data[id], fetch_content(visited[n]))
        /\ sitemap_data[id].URLs = <<PageAB, PageA>>
               => sitemap_data[id].Levels = << << <<"a">>, <<"a">> >>, << <<"b">>, None >> >>

C9_Witness ==
    \E id \in DOMAIN sitemap_data :
        /\ sitemap_data[id].URLs = <<PageAB, PageA>>
        /\ Len(sitemap_data[id].Levels) = 2
        /\ sitemap_data[id].Levels[2][2] = None

(***************************************************************************)
(* C10                                                                     *)
(***************************************************************************)

\* C10: processed_sitemaps_count stays within 0 .. max_sitemap_limit, never
\* decreases, and changes only by +1 in the step that calls parse_sitemap on
\* the current location of the innermost loop, a location ending in ".xml";
\* no other location is ever passed to a nested call.
C10_SharedCounter ==
    /\ [](processed_sitemaps_count \in 0..max_sitemap_limit)
    /\ [](\A n \in 1..Len(calls) : calls[n].depth > 0 => IsXml(calls[n].url))
    /\ [][processed_sitemaps_count' # processed_sitemaps_count
             => /\ processed_sitemaps_count' = processed_sitemaps_count + 1
                /\ stack # <<>>
                /\ pending = <<>>
                /\ pending' = <<CurrentLoc(Head(stack))>>
                /\ IsXml(CurrentLoc(Head(stack)))]_vars

\* the budget was used up by a crawl that also met locations not ending in
\* ".xml"
C10_Witness ==
    /\ pc = "returned"
    /\ processed_sitemaps_count = max_sitemap_limit
    /\ \E n \in 1..Len(visited) :
           \E r \in 1..Len(fetch_content(visited[n])) : ~IsXml(fetch_content(visited[n])[r])

====
